---- MODULE Spec2Model ----
(***************************************************************************)
(* Grocery Assistant (faymo/Grocery-Shopping-Item-Detector).               *)
(*                                                                         *)
(* The model follows the Home component of                                 *)
(* src/shopping-item-detector/src/app/page.js: the camera toggle, the      *)
(* repeating detection timer, the high-contrast toggle with its delayed    *)
(* detections, and detectObjects with the presence tracker                 *)
(* (currentlyVisibleObjectsRef / announcedObjectsRef).  The layouts of      *)
(* src/unnamed/part_000 and src/item-detector/src/app/page.tsx have the    *)
(* same handlers and wire the VOICE button to toggleSpeech; their          *)
(* specification is SpecVoice.                                             *)
(*                                                                         *)
(* Confidence scores are integers in percent (0.55 is 55).  JavaScript is  *)
(* single threaded: every action below is one run-to-completion piece of   *)
(* a handler, cut at each await and at each setTimeout/setInterval.        *)
(***************************************************************************)
EXTENDS Integers, Sequences, FiniteSets, TLC

(***************************************************************************)
(* Bounds of the model.                                                    *)
(***************************************************************************)
MaxDet == 2          \* longest detector output in SpecTracker
MaxInflight == 2     \* detectObjects invocations awaiting model.detect
MaxStarts == 1       \* start attempts awaiting getUserMedia or play
MaxStartTimeouts == 1 \* pending 1000 ms timeouts of the start path
MaxTimers == 2       \* interval ids the browser hands out
MaxSpeakTimeouts == 2 \* pending 100 ms timeouts of speak()

(***************************************************************************)
(* Program constants.                                                      *)
(***************************************************************************)
TrackThreshold == 55      \* pred.score > 0.55
AnnounceThreshold == 65   \* pred.score > 0.65

Labels == {"apple", "banana"}
Classes == Labels \cup {"person"}
Scores == {55, 60, 65, 70, 90}
Detection == [class : Classes, score : Scores]

Det(c, s) == [class |-> c, score |-> s]

\* Detector outputs of the lifecycle specification: nothing, one item at
\* each score around the two thresholds, a second item, a person, and
\* frames with two detections (two candidates, a tie, a person next to an
\* item).
Frames ==
  {<<>>} \cup {<<Det("apple", s)>> : s \in Scores}
  \cup {<<Det("banana", 90)>>, <<Det("person", 90)>>,
        <<Det("banana", 90), Det("apple", 70)>>,
        <<Det("apple", 70), Det("banana", 70)>>,
        <<Det("person", 90), Det("apple", 70)>>}

\* Detector outputs of the tracker specification: every list up to MaxDet.
SeqsUpTo(S, n) == UNION {[1..k -> S] : k \in 0..n}
DetLists == SeqsUpTo(Detection, MaxDet)
TimerIds == 1..MaxTimers

Range(s) == {s[i] : i \in DOMAIN s}

VARIABLES
  model,            \* "loading" | "loaded" | "failed"  (model / isModelLoading)
  isCameraActive,   \* React state isCameraActive
  video,            \* "none": no srcObject; "attached": srcObject set, not
                    \* playing; "playing": srcObject, not paused, readyState >= 2
  timerRef,         \* timerRef.current: 0 is null, else an interval id
  timers,           \* the interval ids that are live in the browser
  gumPending,       \* start attempts awaiting getUserMedia
  playPending,      \* start attempts awaiting video.play()
  startTimeouts,    \* pending setTimeout(..., 1000) of the start path
  gsQueue,          \* pending timeouts of the last high-contrast toggle, in
                    \* firing order
  isGrayscale,      \* React state isGrayscale
  inflight,         \* detectObjects invocations awaiting model.detect
  visible,          \* currentlyVisibleObjectsRef.current
  announced,        \* announcedObjectsRef.current
  detections,       \* React state detections
  lastSpokenItem,   \* React state lastSpokenItem
  speakResults,     \* React state speakResults
  isFullscreen,     \* React state isFullscreen (part_000, page.tsx)
  showControls,     \* React state showControls
  muted,            \* the pending callbacks whose closure holds
                    \* speakResults = false (each callback keeps the state of
                    \* the render that created it): how many of gumPending,
                    \* playPending, startTimeouts and inflight, which of
                    \* timers, and whether the timeouts of gsQueue
  spoken,           \* the texts the last step handed to speech synthesis
  variants,         \* the tracker sets of the other page variants that are
                    \* run along, fed the detector outputs this component
                    \* is fed
  tick,             \* what the last step did as a tick: applied, the
                    \* detector's output, and the labels passed to speak()
  stopped,          \* the stop path ran and no start click followed
  hist,             \* per label: its announcements over the applied ticks
  uttered,          \* the labels of AnnouncedSet that speech synthesis was
                    \* handed when they were added
  toggled,          \* the last voice toggle: "none", or made during capture
                    \* and "draining" (an invocation from before it is still
                    \* waiting) or "fresh" (every waiting invocation is later)
  ev,               \* the handler the last step ran ("off": not recorded)
  calls,            \* the calls of detectObjects() the last step made, when
                    \* steps are recorded
  overtook,         \* the last step resumed an invocation of detectObjects
                    \* while one that started earlier is still waiting (when
                    \* steps are recorded)
  speakTimeouts,    \* the texts of the pending 100 ms timeouts of speak()
  synth             \* window.speechSynthesis: the utterance being spoken and
                    \* those queued behind it ("off": not followed)

vars == <<model, isCameraActive, video, timerRef, timers, gumPending,
          playPending, startTimeouts, gsQueue, isGrayscale, inflight,
          visible, announced, detections, lastSpokenItem, speakResults,
          isFullscreen, showControls, muted, spoken, variants, tick, stopped,
          hist, uttered, toggled, ev, calls, overtook, speakTimeouts, synth>>

\* the React state no handler of the lifecycle sets
uiVars == <<speakResults, isFullscreen, showControls>>

NoTick == [applied |-> FALSE, raw |-> <<>>, says |-> <<>>]

(***************************************************************************)
(* detectObjects, the part after the await: the presence tracker.          *)
(***************************************************************************)

\* variant: no class is excluded
FilterPersonNone(allPredictions) == allPredictions

\* allPredictions.filter(pred => pred.class !== "person")
FilterPerson(allPredictions) ==
  SelectSeq(allPredictions, LAMBDA pred : pred.class # "person")

\* variant: one threshold for tracking and announcing (no hysteresis)
IsTrackedSingleThreshold(pred) == pred.score > AnnounceThreshold

\* variant: the tracking threshold taken inclusive
IsTrackedInclusive(pred) == pred.score >= TrackThreshold

\* pred.score > 0.55
IsTracked(pred) == pred.score > TrackThreshold

\* predictions.forEach(pred => { if (pred.score > 0.55) newVisibleObjects.add(pred.class) })
RECURSIVE NewVisibleObjects(_)
NewVisibleObjects(predictions) ==
  IF predictions = <<>> THEN {}
  ELSE LET rest == NewVisibleObjects(Tail(predictions))
           pred == Head(predictions)
       IN IF IsTracked(pred) THEN {pred.class} \cup rest ELSE rest

\* variant: the membership test of the disappearance scan inverted
DisappearedObjectsInverted(current, newVisibleObjects) ==
  {obj \in current : obj \in newVisibleObjects}

\* currentlyVisibleObjectsRef.current.forEach(obj => { if (!newVisibleObjects.has(obj)) ... push })
DisappearedObjects(current, newVisibleObjects) ==
  {obj \in current : obj \notin newVisibleObjects}

\* variant: disappeared labels are not deleted from the announced set
RemoveDisappearedNone(ann, disappearedObjects) == ann

\* disappearedObjects.forEach(obj => announcedObjectsRef.current.delete(obj))
RemoveDisappeared(ann, disappearedObjects) == ann \ disappearedObjects

\* variant: the announce filter tests the tracking threshold
IsCandidateAtTrackThreshold(pred, ann) ==
  pred.score > TrackThreshold /\ pred.class \notin ann

\* pred.score > 0.65 && !announcedObjectsRef.current.has(pred.class)
IsCandidate(pred, ann) ==
  pred.score > AnnounceThreshold /\ pred.class \notin ann

\* predictions.filter(pred => pred.score > 0.65 && !announced.has(pred.class))
HighConfidencePredictions(predictions, ann) ==
  SelectSeq(predictions, LAMBDA pred : IsCandidate(pred, ann))

\* the comparator (a, b) => b.score - a.score
CompareScore(a, b) == b.score - a.score

\* variant: an unstable sort that puts a later equal element first
InsertSortedUnstable(sorted, p) ==
  LET k == Cardinality({i \in DOMAIN sorted : CompareScore(sorted[i], p) < 0})
  IN SubSeq(sorted, 1, k) \o <<p>> \o SubSeq(sorted, k + 1, Len(sorted))

\* Array.prototype.sort is stable (ECMAScript 2019): an element goes after
\* every element the comparator does not order behind it.
InsertSorted(sorted, p) ==
  LET k == Cardinality({i \in DOMAIN sorted : CompareScore(sorted[i], p) <= 0})
  IN SubSeq(sorted, 1, k) \o <<p>> \o SubSeq(sorted, k + 1, Len(sorted))

RECURSIVE SortByConfidence(_)
SortByConfidence(s) ==
  IF s = <<>> THEN <<>>
  ELSE InsertSorted(SortByConfidence(SubSeq(s, 1, Len(s) - 1)), s[Len(s)])

\* variant: every candidate is announced, not only the top one
AnnouncementsAll(highConfidencePredictions) ==
  [i \in DOMAIN highConfidencePredictions |-> highConfidencePredictions[i].class]

\* if (highConfidencePredictions.length > 0) { topPrediction = sort(...)[0];
\*   speak(topPrediction.class) }: the labels passed to speak()
Announcements(highConfidencePredictions) ==
  IF Len(highConfidencePredictions) > 0
  THEN <<SortByConfidence(highConfidencePredictions)[1].class>>
  ELSE <<>>

\* announcedObjectsRef.current.add(className)
MarkAnnounced(ann, says) == ann \cup Range(says)

\* variant: a tick with no detection left after the filter returns early
\* and leaves both sets as they were
TrackerStepUnlessEmpty(current, ann, allPredictions) ==
  LET predictions == FilterPerson(allPredictions)
      newVisibleObjects == NewVisibleObjects(predictions)
      kept == RemoveDisappeared(ann, DisappearedObjects(current, newVisibleObjects))
      says == Announcements(HighConfidencePredictions(predictions, kept))
  IN IF predictions = <<>>
     THEN [visible |-> current, announced |-> ann,
           detections |-> predictions, says |-> <<>>]
     ELSE [visible |-> newVisibleObjects,
           announced |-> MarkAnnounced(kept, says),
           detections |-> predictions,
           says |-> says]

\* The tracker step of detectObjects on the detector's output.
TrackerStep(current, ann, allPredictions) ==
  LET predictions == FilterPerson(allPredictions)
      newVisibleObjects == NewVisibleObjects(predictions)
      kept == RemoveDisappeared(ann, DisappearedObjects(current, newVisibleObjects))
      says == Announcements(HighConfidencePredictions(predictions, kept))
  IN [visible |-> newVisibleObjects,
      announced |-> MarkAnnounced(kept, says),
      detections |-> predictions,
      says |-> says]

(***************************************************************************)
(* History of a label over the applied ticks of a capture session:         *)
(* "held": announced, and present (a detection of it above the tracking    *)
(* threshold) in every applied tick since; "gone": announced earlier and   *)
(* not present in a later applied tick; "reheld": announced again after    *)
(* having been gone.                                                       *)
(***************************************************************************)
Present(l, predictions) ==
  \E i \in DOMAIN predictions :
    predictions[i].class = l /\ predictions[i].score > TrackThreshold

HistAfterTick(h, predictions, says) ==
  [l \in Labels |->
     IF l \in Range(says)
     THEN (IF h[l] = "gone" THEN "reheld"
           ELSE IF h[l] = "none" THEN "held" ELSE h[l])
     ELSE IF ~Present(l, predictions) /\ h[l] # "none" THEN "gone"
     ELSE h[l]]

NoHist == [l \in Labels |-> "none"]

(***************************************************************************)
(* speak(), the closures of the pending callbacks, and the other variants. *)
(***************************************************************************)

\* speak(text) with the speakResults of its closure:
\* if (!speakResults) return; ... window.speechSynthesis.speak(utterance)
Speak(texts, voice) == IF voice THEN texts ELSE <<>>

\* React state the closure of a detectObjects invocation holds
Flags == [speakResults : BOOLEAN, isGrayscale : BOOLEAN,
          isFullscreen : BOOLEAN, showControls : BOOLEAN,
          isCameraActive : BOOLEAN]

\* variant: a label is marked announced only when the voice flag lets it
\* be spoken
DetectObjectsResultVoiceGated(current, ann, allPredictions, flags) ==
  LET r == TrackerStep(current, ann, allPredictions)
  IN [r EXCEPT !.announced = IF flags.speakResults THEN @ ELSE @ \ Range(r.says)]
       @@ [spoken |-> Speak(r.says, flags.speakResults)]

\* detectObjects after its await, run with the state of its closure: the
\* tracker step, and speak(className) of the announced label
DetectObjectsResult(current, ann, allPredictions, flags) ==
  LET r == TrackerStep(current, ann, allPredictions)
  IN r @@ [spoken |-> Speak(r.says, flags.speakResults)]

\* no pending callback holds speakResults = false
NoMuted == [gum |-> 0, play |-> 0, timeout |-> 0, inflight |-> 0,
            timers |-> {}, gs |-> FALSE]

Bit(b) == IF b THEN 1 ELSE 0

\* of n pending callbacks, k of them muted, one that is muted (m) or one
\* that is not can be the next to run
CanPick(m, n, k) == IF m THEN k > 0 ELSE n > k

\* The other variants of the page: src/unnamed/part_000 and the two
\* components of src/item-detector/src/app/page.tsx.
OtherVariants == {"part_000", "page.tsx", "page.tsx/ios"}

\* variant: the first component of page.tsx announces from 0.6
VariantConfigLowerAnnounce(v) ==
  CASE v = "part_000" -> [excluded |-> "person", track |-> 55, announce |-> 65]
    [] v = "page.tsx" -> [excluded |-> "person", track |-> 55, announce |-> 60]
    [] v = "page.tsx/ios" -> [excluded |-> "person", track |-> 55, announce |-> 65]

\* the excluded class and the two thresholds in each variant's detectObjects
VariantConfig(v) ==
  CASE v = "part_000" -> [excluded |-> "person", track |-> 55, announce |-> 65]
    [] v = "page.tsx" -> [excluded |-> "person", track |-> 55, announce |-> 65]
    [] v = "page.tsx/ios" -> [excluded |-> "person", track |-> 55, announce |-> 65]

\* detectObjects after the await as the variants write it: filter the
\* excluded class, collect newVisibleObjects, delete the disappeared labels
\* from the announced set, filter the candidates, take the first of the
\* (stable) descending sort, add its class
VariantStep(cfg, current, ann, allPredictions) ==
  LET predictions ==
        SelectSeq(allPredictions, LAMBDA pred : pred.class # cfg.excluded)
      newVisibleObjects ==
        {predictions[i].class :
           i \in {j \in DOMAIN predictions : predictions[j].score > cfg.track}}
      kept == ann \ {obj \in current : obj \notin newVisibleObjects}
      cand == SelectSeq(predictions,
                LAMBDA pred : pred.score > cfg.announce /\ pred.class \notin kept)
      top == CHOOSE i \in DOMAIN cand :
               \A j \in DOMAIN cand :
                 \/ cand[j].score < cand[i].score
                 \/ (cand[j].score = cand[i].score /\ i <= j)
      says == IF cand = <<>> THEN <<>> ELSE <<cand[top].class>>
  IN [visible |-> newVisibleObjects,
      announced |-> kept \cup Range(says),
      says |-> says]

\* the variants that are run along (DOMAIN vs), at the start of capture
NoVariants(vs) == [v \in DOMAIN vs |-> [visible |-> {}, announced |-> {}]]

VariantsAfterTick(vs, allPredictions) ==
  [v \in DOMAIN vs |->
     LET r == VariantStep(VariantConfig(v), vs[v].visible, vs[v].announced,
                          allPredictions)
     IN [visible |-> r.visible, announced |-> r.announced]]

\* the handler a step ran, when steps are recorded
Record(name) == IF ev = "off" THEN "off" ELSE name

\* the calls of detectObjects() a step made, when steps are recorded
Calls(n) == IF ev = "off" THEN 0 ELSE n

\* model.detect resolved for the k-th waiting invocation in the order of
\* their calls: it resumes ahead of an earlier one (when steps are recorded)
Overtakes(k) == ev # "off" /\ k > 1

\* speak() past its voice test, for the texts a handler passed to it:
\* window.speechSynthesis.cancel(), then
\* setTimeout(() => window.speechSynthesis.speak(utterance), 100)
SpeakRequested ==
  IF synth = "off"
  THEN UNCHANGED <<synth, speakTimeouts>>
  ELSE /\ Len(speakTimeouts) + Len(spoken') <= MaxSpeakTimeouts
       /\ synth' = IF spoken' = <<>> THEN synth ELSE <<>>
       /\ speakTimeouts' = speakTimeouts \o spoken'

(***************************************************************************)
(* Initial state: the component as constructed (useState / useRef).        *)
(***************************************************************************)
Constructed(recording) ==
  /\ model = "loading"
  /\ isCameraActive = FALSE
  /\ video = "none"
  /\ timerRef = 0
  /\ timers = {}
  /\ gumPending = 0
  /\ playPending = 0
  /\ startTimeouts = 0
  /\ gsQueue = <<>>
  /\ isGrayscale = FALSE
  /\ inflight = 0
  /\ visible = {}
  /\ announced = {}
  /\ detections = <<>>
  /\ lastSpokenItem = ""
  /\ speakResults = TRUE
  /\ isFullscreen = FALSE
  /\ showControls = TRUE
  /\ muted = NoMuted
  /\ spoken = <<>>
  /\ variants = <<>>
  /\ tick = NoTick
  /\ stopped = FALSE
  /\ hist = NoHist
  /\ uttered = {}
  /\ toggled = "none"
  /\ ev = recording
  /\ calls = 0
  /\ overtook = FALSE
  /\ speakTimeouts = <<>>
  /\ synth = "off"

\* steps are not recorded
Init == Constructed("off")

\* useEffect(loadModel): setModel(loadedModel); setIsModelLoading(false)
ModelLoaded ==
  /\ model = "loading"
  /\ model' = "loaded"
  /\ tick' = NoTick
  /\ spoken' = <<>>
  /\ ev' = Record("loadModel")
  /\ overtook' = FALSE
  /\ SpeakRequested
  /\ calls' = Calls(0)
  /\ UNCHANGED <<isCameraActive, video, timerRef, timers, gumPending,
                 playPending, startTimeouts, gsQueue, isGrayscale, inflight,
                 visible, announced, detections, lastSpokenItem, stopped, hist,
                 uiVars, muted, variants, uttered, toggled>>

\* useEffect(loadModel), catch: setError(...); setIsModelLoading(false)
ModelLoadFailed ==
  /\ model = "loading"
  /\ model' = "failed"
  /\ tick' = NoTick
  /\ spoken' = <<>>
  /\ ev' = Record("loadModel")
  /\ overtook' = FALSE
  /\ SpeakRequested
  /\ calls' = Calls(0)
  /\ UNCHANGED <<isCameraActive, video, timerRef, timers, gumPending,
                 playPending, startTimeouts, gsQueue, isGrayscale, inflight,
                 visible, announced, detections, lastSpokenItem, stopped, hist,
                 uiVars, muted, variants, uttered, toggled>>

(***************************************************************************)
(* detectObjects up to its await: the early return, else model.detect is   *)
(* called and the invocation waits for it.                                 *)
(***************************************************************************)
IsVideoPlaying == video = "playing"

\* isVideoActive of the interval callback: srcObject && !paused (no
\* readyState test); play() has been called and has not been rejected
IsVideoActive ==
  video = "playing" \/ (video = "attached" /\ playPending > 0)

DetectPreconditions == model = "loaded" /\ IsVideoPlaying

\* variant: detectObjects without its early return
DetectObjectsCallUnguarded(n) == n + 1

\* inflight after one call of detectObjects()
DetectObjectsCall(n) == IF DetectPreconditions THEN n + 1 ELSE n

\* the call fits the bound on waiting invocations
CanCall(n) == DetectPreconditions => n < MaxInflight

\* variant: the held timer is left running
ClearTimerRefNone(live) == live

\* clearInterval(timerRef.current) when timerRef.current is set
ClearTimerRef(live) == IF timerRef # 0 THEN live \ {timerRef} ELSE live

\* the id setInterval returns: one the browser has not handed out
FreshTimer == CHOOSE id \in TimerIds : id \notin timers \cup {timerRef}

\* startDetectionInterval: clear the held timer, detect once, set the interval
StartDetectionInterval ==
  /\ \E id \in TimerIds : id \notin timers \cup {timerRef}
  /\ CanCall(inflight)
  /\ inflight' = DetectObjectsCall(inflight)
  /\ timers' = ClearTimerRef(timers) \cup {FreshTimer}
  /\ timerRef' = FreshTimer

\* muted after startDetectionInterval ran in a closure that is muted (m):
\* the held timer is cleared, detectObjects of this closure is called, and
\* the interval callback is created in it
MutedAfterStart(m, base) ==
  [base EXCEPT !.inflight = @ + Bit(m /\ DetectPreconditions),
               !.timers = (@ \ {timerRef}) \cup (IF m THEN {FreshTimer} ELSE {})]

(***************************************************************************)
(* toggleCamera                                                            *)
(***************************************************************************)

\* the stop path (isCameraActive): reset both sets, stop and detach the
\* stream, clear the held timer, speak("Camera turned off")
ToggleCameraStop ==
  /\ model # "loading"
  /\ showControls
  /\ isCameraActive
  /\ visible' = {}
  /\ announced' = {}
  /\ video' = "none"
  /\ isCameraActive' = FALSE
  /\ detections' = <<>>
  /\ timers' = ClearTimerRef(timers)
  /\ timerRef' = 0
  /\ muted' = [muted EXCEPT !.timers = @ \ {timerRef}]
  /\ spoken' = Speak(<<"Camera turned off">>, speakResults)
  /\ variants' = NoVariants(variants)
  /\ tick' = NoTick
  /\ stopped' = TRUE
  /\ hist' = NoHist
  /\ uttered' = {}
  /\ toggled' = "none"
  /\ ev' = Record("toggleCamera")
  /\ overtook' = FALSE
  /\ SpeakRequested
  /\ calls' = Calls(0)
  /\ UNCHANGED <<model, gumPending, playPending, startTimeouts, gsQueue,
                 isGrayscale, inflight, lastSpokenItem, uiVars>>

\* the start path up to `await navigator.mediaDevices.getUserMedia(...)`
ToggleCameraStart ==
  /\ model # "loading"
  /\ showControls
  /\ ~isCameraActive
  /\ gumPending + playPending < MaxStarts
  /\ gumPending' = gumPending + 1
  /\ muted' = [muted EXCEPT !.gum = @ + Bit(~speakResults)]
  /\ spoken' = <<>>
  /\ tick' = NoTick
  /\ stopped' = FALSE
  /\ ev' = Record("toggleCamera")
  /\ overtook' = FALSE
  /\ SpeakRequested
  /\ calls' = Calls(0)
  /\ UNCHANGED <<model, isCameraActive, video, timerRef, timers, playPending,
                 startTimeouts, gsQueue, isGrayscale, inflight, visible,
                 announced, detections, lastSpokenItem, hist, uiVars,
                 variants, uttered, toggled>>

\* getUserMedia resolved: videoRef.current.srcObject = stream, up to
\* `await videoRef.current.play()`
GetUserMediaResolved ==
  /\ gumPending > 0
  /\ gumPending' = gumPending - 1
  /\ playPending' = playPending + 1
  /\ video' = "attached"
  /\ \E m \in BOOLEAN :
       /\ CanPick(m, gumPending, muted.gum)
       /\ muted' = [muted EXCEPT !.gum = @ - Bit(m), !.play = @ + Bit(m)]
  /\ spoken' = <<>>
  /\ tick' = NoTick
  /\ ev' = Record("toggleCamera")
  /\ overtook' = FALSE
  /\ SpeakRequested
  /\ calls' = Calls(0)
  /\ UNCHANGED <<model, isCameraActive, timerRef, timers, startTimeouts,
                 gsQueue, isGrayscale, inflight, visible, announced,
                 detections, lastSpokenItem, stopped, hist, uiVars, variants,
                 uttered, toggled>>

\* getUserMedia rejected: setError("Camera access error ...")
GetUserMediaRejected ==
  /\ gumPending > 0
  /\ gumPending' = gumPending - 1
  /\ \E m \in BOOLEAN :
       /\ CanPick(m, gumPending, muted.gum)
       /\ muted' = [muted EXCEPT !.gum = @ - Bit(m)]
  /\ spoken' = <<>>
  /\ tick' = NoTick
  /\ ev' = Record("toggleCamera")
  /\ overtook' = FALSE
  /\ SpeakRequested
  /\ calls' = Calls(0)
  /\ UNCHANGED <<model, isCameraActive, video, timerRef, timers, playPending,
                 startTimeouts, gsQueue, isGrayscale, inflight, visible,
                 announced, detections, lastSpokenItem, stopped, hist, uiVars,
                 variants, uttered, toggled>>

\* play() resolved: setIsCameraActive(true); setTimeout(..., 1000)
PlayResolved ==
  /\ playPending > 0
  /\ video # "none"
  /\ startTimeouts < MaxStartTimeouts
  /\ playPending' = playPending - 1
  /\ video' = "playing"
  /\ isCameraActive' = TRUE
  /\ startTimeouts' = startTimeouts + 1
  /\ \E m \in BOOLEAN :
       /\ CanPick(m, playPending, muted.play)
       /\ muted' = [muted EXCEPT !.play = @ - Bit(m), !.timeout = @ + Bit(m)]
  /\ spoken' = <<>>
  /\ tick' = NoTick
  /\ ev' = Record("toggleCamera")
  /\ overtook' = FALSE
  /\ SpeakRequested
  /\ calls' = Calls(0)
  /\ UNCHANGED <<model, timerRef, timers, gumPending, gsQueue, isGrayscale,
                 inflight, visible, announced, detections, lastSpokenItem,
                 stopped, hist, uiVars, variants, uttered, toggled>>

\* play() rejected: setError("... couldn't start video ...")
PlayRejected ==
  /\ playPending > 0
  /\ playPending' = playPending - 1
  /\ \E m \in BOOLEAN :
       /\ CanPick(m, playPending, muted.play)
       /\ muted' = [muted EXCEPT !.play = @ - Bit(m)]
  /\ spoken' = <<>>
  /\ tick' = NoTick
  /\ ev' = Record("toggleCamera")
  /\ overtook' = FALSE
  /\ SpeakRequested
  /\ calls' = Calls(0)
  /\ UNCHANGED <<model, isCameraActive, video, timerRef, timers, gumPending,
                 startTimeouts, gsQueue, isGrayscale, inflight, visible,
                 announced, detections, lastSpokenItem, stopped, hist, uiVars,
                 variants, uttered, toggled>>

\* the 1000 ms timeout of the start path:
\* if (videoRef.current?.srcObject) { startDetectionInterval();
\*   if (speakResults) speak("Camera started. Scanning for items.") }
StartTimeoutFired ==
  /\ startTimeouts > 0
  /\ startTimeouts' = startTimeouts - 1
  /\ \E m \in BOOLEAN :
       /\ CanPick(m, startTimeouts, muted.timeout)
       /\ IF video # "none"
          THEN /\ StartDetectionInterval
               /\ muted' = MutedAfterStart(m, [muted EXCEPT !.timeout = @ - Bit(m)])
               /\ spoken' = Speak(<<"Camera started. Scanning for items.">>, ~m)
          ELSE /\ UNCHANGED <<inflight, timers, timerRef>>
               /\ muted' = [muted EXCEPT !.timeout = @ - Bit(m)]
               /\ spoken' = <<>>
  /\ tick' = NoTick
  /\ ev' = Record("startTimeout")
  /\ overtook' = FALSE
  /\ SpeakRequested
  /\ calls' = Calls(Bit(video # "none"))
  /\ UNCHANGED <<model, isCameraActive, video, gumPending, playPending,
                 gsQueue, isGrayscale, visible, announced, detections,
                 lastSpokenItem, stopped, hist, uiVars, variants, uttered,
                 toggled>>

\* the setInterval callback: if (isVideoActive) detectObjects()
TimerFired ==
  /\ CanCall(inflight)
  /\ inflight' = IF video = "playing" THEN DetectObjectsCall(inflight)
                 ELSE inflight
  /\ \E id \in timers :
       muted' = [muted EXCEPT
                   !.inflight = @ + Bit(id \in muted.timers /\ DetectPreconditions)]
  /\ spoken' = <<>>
  /\ tick' = NoTick
  /\ ev' = Record("interval")
  /\ overtook' = FALSE
  /\ SpeakRequested
  /\ calls' = Calls(Bit(IsVideoActive))
  /\ UNCHANGED <<model, isCameraActive, video, timerRef, timers, gumPending,
                 playPending, startTimeouts, gsQueue, isGrayscale, visible,
                 announced, detections, lastSpokenItem, stopped, hist, uiVars,
                 variants, uttered, toggled>>

(***************************************************************************)
(* toggleGrayscale and the effect on isGrayscale.  The updater schedules   *)
(* the 50 ms forced detection with the isCameraActive of its render; the   *)
(* effect, when the camera is active, announces the mode and, when a       *)
(* stream is attached, clears the interval (timerRef keeps the id),        *)
(* detects at once and schedules detections at 100 and 300 ms and          *)
(* startDetectionInterval at 500 ms.                                       *)
(* One toggle is in progress at a time: its timeouts fire before the next. *)
(***************************************************************************)
ForcedTimeout == IF isCameraActive THEN "forceOn" ELSE "forceOff"

ToggleGrayscale ==
  /\ model # "loading"
  /\ showControls
  /\ gsQueue = <<>>
  /\ isGrayscale' = ~isGrayscale
  /\ IF isCameraActive /\ video # "none"
     THEN /\ CanCall(inflight)
          /\ timers' = ClearTimerRef(timers)
          /\ inflight' = DetectObjectsCall(inflight)
          /\ gsQueue' = <<ForcedTimeout, "detect100", "detect300", "restart500">>
          /\ muted' = [muted EXCEPT
                         !.timers = @ \ {timerRef},
                         !.inflight = @ + Bit(~speakResults /\ DetectPreconditions),
                         !.gs = ~speakResults]
     ELSE /\ gsQueue' = <<ForcedTimeout>>
          /\ muted' = [muted EXCEPT !.gs = ~speakResults]
          /\ UNCHANGED <<timers, inflight>>
  /\ spoken' = IF isCameraActive
               THEN Speak(<<IF ~isGrayscale THEN "High contrast mode enabled"
                            ELSE "Color mode enabled">>, speakResults)
               ELSE <<>>
  /\ tick' = NoTick
  /\ ev' = Record("toggleGrayscale")
  /\ overtook' = FALSE
  /\ SpeakRequested
  /\ calls' = Calls(Bit(isCameraActive /\ video # "none"))
  /\ UNCHANGED <<model, isCameraActive, video, timerRef, gumPending,
                 playPending, startTimeouts, visible, announced, detections,
                 lastSpokenItem, stopped, hist, uiVars, variants, uttered,
                 toggled>>

\* the next timeout of the toggle fires
GrayscaleTimeoutFired ==
  /\ gsQueue # <<>>
  /\ gsQueue' = Tail(gsQueue)
  /\ CASE Head(gsQueue) = "forceOn" ->
            \* if (isCameraActive && videoRef.current.srcObject) detectObjects()
            /\ CanCall(inflight)
            /\ inflight' = IF video # "none" THEN DetectObjectsCall(inflight)
                           ELSE inflight
            /\ muted' = [muted EXCEPT
                           !.inflight = @ + Bit(muted.gs /\ DetectPreconditions)]
            /\ UNCHANGED <<timers, timerRef>>
       [] Head(gsQueue) = "forceOff" ->
            UNCHANGED <<inflight, timers, timerRef, muted>>
       [] Head(gsQueue) \in {"detect100", "detect300"} ->
            \* setTimeout(() => detectObjects(), ...)
            /\ CanCall(inflight)
            /\ inflight' = DetectObjectsCall(inflight)
            /\ muted' = [muted EXCEPT
                           !.inflight = @ + Bit(muted.gs /\ DetectPreconditions)]
            /\ UNCHANGED <<timers, timerRef>>
       [] Head(gsQueue) = "restart500" ->
            \* setTimeout(() => { startDetectionInterval(); }, 500)
            /\ StartDetectionInterval
            /\ muted' = MutedAfterStart(muted.gs, muted)
  /\ spoken' = <<>>
  /\ tick' = NoTick
  /\ ev' = Record("grayscaleTimeout")
  /\ overtook' = FALSE
  /\ SpeakRequested
  /\ calls' = Calls(IF Head(gsQueue) = "forceOn" THEN Bit(video # "none")
                    ELSE IF Head(gsQueue) = "forceOff" THEN 0
                    ELSE 1)
  /\ UNCHANGED <<model, isCameraActive, video, gumPending, playPending,
                 startTimeouts, isGrayscale, visible, announced, detections,
                 lastSpokenItem, stopped, hist, uiVars, variants, uttered,
                 toggled>>

(***************************************************************************)
(* detectObjects after the await                                           *)
(***************************************************************************)

\* the React state in the closure of an invocation (muted: m)
ClosureFlags(m) ==
  [speakResults |-> ~m, isGrayscale |-> isGrayscale,
   isFullscreen |-> isFullscreen, showControls |-> showControls,
   isCameraActive |-> isCameraActive]

\* the voice toggle after an invocation ended, n invocations are left
ToggledAfter(n) == IF toggled = "draining" /\ n = 0 THEN "fresh" ELSE toggled

\* model.detect resolved with allPredictions: the rest of detectObjects
DetectCompleted(allPredictions) ==
  /\ inflight > 0
  /\ inflight' = inflight - 1
  /\ \E m \in BOOLEAN :
       /\ CanPick(m, inflight, muted.inflight)
       /\ muted' = [muted EXCEPT !.inflight = @ - Bit(m)]
       /\ \E r \in {DetectObjectsResult(visible, announced, allPredictions,
                                       ClosureFlags(m))} :
             /\ visible' = r.visible
             /\ announced' = r.announced
             /\ detections' = r.detections
             /\ lastSpokenItem' = IF r.says # <<>> THEN r.says[Len(r.says)]
                                  ELSE lastSpokenItem
             /\ spoken' = r.spoken
             /\ tick' = [applied |-> TRUE, raw |-> allPredictions,
                         says |-> r.says]
             /\ hist' = HistAfterTick(hist, r.detections, r.says)
             /\ uttered' = (uttered \cap (r.announced \ Range(r.says)))
                             \cup (Range(r.spoken) \cap Range(r.says))
  /\ variants' = VariantsAfterTick(variants, allPredictions)
  /\ toggled' = ToggledAfter(inflight - 1)
  /\ ev' = Record("detectObjects")
  /\ \E k \in 1..inflight : overtook' = Overtakes(k)
  /\ SpeakRequested
  /\ calls' = Calls(0)
  /\ UNCHANGED <<model, isCameraActive, video, timerRef, timers, gumPending,
                 playPending, startTimeouts, gsQueue, isGrayscale, stopped,
                 uiVars>>

\* variant: the catch block resets the tracker
DetectThrewResetting ==
  /\ inflight > 0
  /\ inflight' = inflight - 1
  /\ \E m \in BOOLEAN :
       /\ CanPick(m, inflight, muted.inflight)
       /\ muted' = [muted EXCEPT !.inflight = @ - Bit(m)]
  /\ visible' = {}
  /\ announced' = {}
  /\ spoken' = <<>>
  /\ tick' = NoTick
  /\ toggled' = ToggledAfter(inflight - 1)
  /\ ev' = Record("detectObjects")
  /\ \E k \in 1..inflight : overtook' = Overtakes(k)
  /\ SpeakRequested
  /\ calls' = Calls(0)
  /\ UNCHANGED <<model, isCameraActive, video, timerRef, timers, gumPending,
                 playPending, startTimeouts, gsQueue, isGrayscale,
                 detections, lastSpokenItem, stopped, hist, uiVars,
                 variants, uttered>>

\* model.detect rejected: catch (error) { console.error(...) }
DetectThrew ==
  /\ inflight > 0
  /\ inflight' = inflight - 1
  /\ \E m \in BOOLEAN :
       /\ CanPick(m, inflight, muted.inflight)
       /\ muted' = [muted EXCEPT !.inflight = @ - Bit(m)]
  /\ spoken' = <<>>
  /\ tick' = NoTick
  /\ toggled' = ToggledAfter(inflight - 1)
  /\ ev' = Record("detectObjects")
  /\ \E k \in 1..inflight : overtook' = Overtakes(k)
  /\ SpeakRequested
  /\ calls' = Calls(0)
  /\ UNCHANGED <<model, isCameraActive, video, timerRef, timers, gumPending,
                 playPending, startTimeouts, gsQueue, isGrayscale, visible,
                 announced, detections, lastSpokenItem, stopped, hist, uiVars,
                 variants, uttered>>

(***************************************************************************)
(* The other buttons                                                       *)
(***************************************************************************)

\* [...detections].filter(det => det.class !== "person")
\*   .sort((a, b) => b.score - a.score)[0], and the text passed to speak()
RepeatText(dets) ==
  IF Len(dets) > 0
  THEN LET shown == FilterPerson(dets)
       IN IF shown # <<>> THEN <<SortByConfidence(shown)[1].class>>
          ELSE <<"No objects currently detected">>
  ELSE <<"No objects currently detected">>

\* variant: REPEAT marks the label it speaks as announced
RepeatLatestDetectionMarking ==
  /\ showControls
  /\ isCameraActive
  /\ Len(detections) # 0
  /\ spoken' = Speak(RepeatText(detections), speakResults)
  /\ announced' = announced \cup (Range(spoken') \cap Classes)
  /\ tick' = NoTick
  /\ ev' = Record("repeatLatestDetection")
  /\ overtook' = FALSE
  /\ SpeakRequested
  /\ calls' = Calls(0)
  /\ UNCHANGED <<model, isCameraActive, video, timerRef, timers, gumPending,
                 playPending, startTimeouts, gsQueue, isGrayscale, inflight,
                 visible, detections, lastSpokenItem, stopped, hist,
                 uiVars, muted, variants, uttered, toggled>>

\* REPEAT (disabled={!isCameraActive || detections.length === 0}):
\* repeatLatestDetection
RepeatLatestDetection ==
  /\ showControls
  /\ isCameraActive
  /\ Len(detections) # 0
  /\ spoken' = Speak(RepeatText(detections), speakResults)
  /\ tick' = NoTick
  /\ ev' = Record("repeatLatestDetection")
  /\ overtook' = FALSE
  /\ SpeakRequested
  /\ calls' = Calls(0)
  /\ UNCHANGED <<model, isCameraActive, video, timerRef, timers, gumPending,
                 playPending, startTimeouts, gsQueue, isGrayscale, inflight,
                 visible, announced, detections, lastSpokenItem, stopped, hist,
                 uiVars, muted, variants, uttered, toggled>>

\* VOICE: toggleSpeech, with the speakResults of the render of the click:
\* setSpeakResults(!speakResults); speak(speakResults ? "... disabled" : "... enabled")
ToggleSpeech ==
  /\ showControls
  /\ speakResults' = ~speakResults
  /\ spoken' = Speak(<<IF speakResults THEN "Voice feedback disabled"
                       ELSE "Voice feedback enabled">>, speakResults)
  /\ toggled' = IF ~isCameraActive THEN "none"
                ELSE IF inflight = 0 THEN "fresh" ELSE "draining"
  /\ tick' = NoTick
  /\ ev' = Record("toggleSpeech")
  /\ overtook' = FALSE
  /\ SpeakRequested
  /\ calls' = Calls(0)
  /\ UNCHANGED <<model, isCameraActive, video, timerRef, timers, gumPending,
                 playPending, startTimeouts, gsQueue, isGrayscale, inflight,
                 visible, announced, detections, lastSpokenItem, stopped, hist,
                 isFullscreen, showControls, muted, variants, uttered>>

\* toggleFullscreen: setIsFullscreen(!isFullscreen); setShowControls(!isFullscreen)
ToggleFullscreen ==
  /\ isFullscreen' = ~isFullscreen
  /\ showControls' = ~isFullscreen
  /\ spoken' = <<>>
  /\ tick' = NoTick
  /\ ev' = Record("toggleFullscreen")
  /\ overtook' = FALSE
  /\ SpeakRequested
  /\ calls' = Calls(0)
  /\ UNCHANGED <<model, isCameraActive, video, timerRef, timers, gumPending,
                 playPending, startTimeouts, gsQueue, isGrayscale, inflight,
                 visible, announced, detections, lastSpokenItem, stopped, hist,
                 speakResults, muted, variants, uttered, toggled>>

\* toggleControls (a tap on the camera container): setShowControls(!showControls)
ToggleControls ==
  /\ showControls' = ~showControls
  /\ spoken' = <<>>
  /\ tick' = NoTick
  /\ ev' = Record("toggleControls")
  /\ overtook' = FALSE
  /\ SpeakRequested
  /\ calls' = Calls(0)
  /\ UNCHANGED <<model, isCameraActive, video, timerRef, timers, gumPending,
                 playPending, startTimeouts, gsQueue, isGrayscale, inflight,
                 visible, announced, detections, lastSpokenItem, stopped, hist,
                 speakResults, isFullscreen, muted, variants, uttered, toggled>>

(***************************************************************************)
(* Speech synthesis                                                        *)
(***************************************************************************)

\* the oldest pending 100 ms timeout of speak() fires:
\* window.speechSynthesis.speak(utterance) appends to the utterance queue
SpeakTimeoutFired ==
  /\ synth # "off"
  /\ speakTimeouts # <<>>
  /\ synth' = Append(synth, Head(speakTimeouts))
  /\ speakTimeouts' = Tail(speakTimeouts)
  /\ spoken' = <<>>
  /\ tick' = NoTick
  /\ ev' = Record("speakTimeout")
  /\ overtook' = FALSE
  /\ calls' = Calls(0)
  /\ UNCHANGED <<model, isCameraActive, video, timerRef, timers, gumPending,
                 playPending, startTimeouts, gsQueue, isGrayscale, inflight,
                 visible, announced, detections, lastSpokenItem, stopped, hist,
                 uiVars, muted, variants, uttered, toggled>>

\* the utterance being spoken ends; the next one in the queue starts
UtteranceEnded ==
  /\ synth # "off"
  /\ synth # <<>>
  /\ synth' = Tail(synth)
  /\ spoken' = <<>>
  /\ tick' = NoTick
  /\ ev' = Record("utteranceEnd")
  /\ overtook' = FALSE
  /\ calls' = Calls(0)
  /\ UNCHANGED <<model, isCameraActive, video, timerRef, timers, gumPending,
                 playPending, startTimeouts, gsQueue, isGrayscale, inflight,
                 visible, announced, detections, lastSpokenItem, stopped, hist,
                 uiVars, muted, variants, uttered, toggled, speakTimeouts>>

(***************************************************************************)
(* Specifications                                                          *)
(***************************************************************************)
Lifecycle ==
  \/ ModelLoaded
  \/ ModelLoadFailed
  \/ ToggleCameraStop
  \/ ToggleCameraStart
  \/ GetUserMediaResolved
  \/ GetUserMediaRejected
  \/ PlayResolved
  \/ PlayRejected
  \/ StartTimeoutFired
  \/ TimerFired
  \/ ToggleGrayscale
  \/ GrayscaleTimeoutFired
  \/ DetectThrew

Next ==
  \/ Lifecycle
  \/ RepeatLatestDetection
  \/ \E allPredictions \in Frames : DetectCompleted(allPredictions)

\* The program with every handler, timeout and promise outcome.
Spec == Init /\ [][Next]_vars

(***************************************************************************)
(* The layout of part_000 and page.tsx: no high-contrast button, the VOICE *)
(* button, and REPEAT.                                                     *)
(***************************************************************************)
NextVoice ==
  \/ ModelLoaded
  \/ ModelLoadFailed
  \/ ToggleCameraStop
  \/ ToggleCameraStart
  \/ GetUserMediaResolved
  \/ GetUserMediaRejected
  \/ PlayResolved
  \/ PlayRejected
  \/ StartTimeoutFired
  \/ TimerFired
  \/ DetectThrew
  \/ ToggleSpeech
  \/ RepeatLatestDetection
  \/ \E allPredictions \in Frames : DetectCompleted(allPredictions)

SpecVoice == Constructed("") /\ [][NextVoice]_vars

\* The page.js layout with its steps recorded and a detector that finds
\* nothing: who calls detectObjects, and when.
NextInterval ==
  \/ Lifecycle
  \/ DetectCompleted(<<>>)

SpecInterval == Constructed("") /\ [][NextInterval]_vars

(***************************************************************************)
(* The tracker step on its own: capture is running, one detectObjects      *)
(* invocation waits for the detector, the sets hold any value a session    *)
(* can have left in them (AnnouncedSet within VisibleSet), and the         *)
(* detector returns any list up to MaxDet.                                 *)
(***************************************************************************)
PriorDetections(v) ==
  (IF "apple" \in v THEN <<Det("apple", 70)>> ELSE <<>>)
  \o (IF "banana" \in v THEN <<Det("banana", 70)>> ELSE <<>>)

InitTracker ==
  /\ model = "loaded"
  /\ isCameraActive = TRUE
  /\ video = "playing"
  /\ timerRef = 1
  /\ timers = {1}
  /\ gumPending = 0
  /\ playPending = 0
  /\ startTimeouts = 0
  /\ gsQueue = <<>>
  /\ isGrayscale = FALSE
  /\ inflight = 1
  /\ visible \in SUBSET Labels
  /\ announced \in SUBSET visible
  /\ detections = PriorDetections(visible)
  /\ hist \in {h \in [Labels -> {"none", "held", "gone", "reheld"}] :
                 \A l \in Labels : l \in announced <=> h[l] \in {"held", "reheld"}}
  /\ lastSpokenItem \in {l \in Labels \cup {""} : l = "" => hist = NoHist}
  /\ speakResults = TRUE
  /\ isFullscreen = FALSE
  /\ showControls = TRUE
  /\ muted = NoMuted
  /\ spoken = <<>>
  /\ variants = <<>>
  /\ tick = NoTick
  /\ stopped = FALSE
  /\ uttered = announced
  /\ toggled = "none"
  /\ ev = "off"
  /\ calls = 0
  /\ overtook = FALSE
  /\ speakTimeouts = <<>>
  /\ synth = "off"

NextTracker == \E allPredictions \in DetLists : DetectCompleted(allPredictions)

SpecTracker == InitTracker /\ [][NextTracker]_vars

(***************************************************************************)
(* Capture running in the part_000 layout, from the start of a session:    *)
(* the delayed startDetectionInterval has run in the closure of the START  *)
(* click (voice on or off at that click), the voice, fullscreen and        *)
(* controls state is any the buttons can have produced by then, and the    *)
(* interval, the detector and the three buttons go on.                     *)
(***************************************************************************)
InitFlags ==
  /\ model = "loaded"
  /\ isCameraActive = TRUE
  /\ video = "playing"
  /\ timerRef = 1
  /\ timers = {1}
  /\ gumPending = 0
  /\ playPending = 0
  /\ startTimeouts = 0
  /\ gsQueue = <<>>
  /\ isGrayscale = FALSE
  /\ inflight = 1
  /\ visible = {}
  /\ announced = {}
  /\ detections = <<>>
  /\ lastSpokenItem = ""
  /\ speakResults \in BOOLEAN
  /\ isFullscreen \in BOOLEAN
  /\ showControls \in BOOLEAN
  /\ \E m \in BOOLEAN :
       /\ muted = [NoMuted EXCEPT !.inflight = Bit(m),
                                  !.timers = IF m THEN {1} ELSE {}]
       /\ spoken = Speak(<<"Camera started. Scanning for items.">>, ~m)
  /\ variants = <<>>
  /\ tick = NoTick
  /\ stopped = FALSE
  /\ hist = NoHist
  /\ uttered = {}
  /\ toggled = "none"
  /\ ev = "off"
  /\ calls = 0
  /\ overtook = FALSE
  /\ speakTimeouts = <<>>
  /\ synth = "off"

NextFlags ==
  \/ TimerFired
  \/ ToggleSpeech
  \/ ToggleFullscreen
  \/ ToggleControls
  \/ \E allPredictions \in Frames : DetectCompleted(allPredictions)

SpecFlags == InitFlags /\ [][NextFlags]_vars

(***************************************************************************)
(* The four variants side by side: capture has just started with voice on, *)
(* the sets of part_000 and of the two components of page.tsx are kept     *)
(* next to those of page.js, every applied tick hands the same detector    *)
(* output to each of them, and the interval fires when no invocation is    *)
(* waiting.                                                                *)
(***************************************************************************)
InitVariants ==
  /\ model = "loaded"
  /\ isCameraActive = TRUE
  /\ video = "playing"
  /\ timerRef = 1
  /\ timers = {1}
  /\ gumPending = 0
  /\ playPending = 0
  /\ startTimeouts = 0
  /\ gsQueue = <<>>
  /\ isGrayscale = FALSE
  /\ inflight = 1
  /\ visible = {}
  /\ announced = {}
  /\ detections = <<>>
  /\ lastSpokenItem = ""
  /\ speakResults = TRUE
  /\ isFullscreen = FALSE
  /\ showControls = TRUE
  /\ muted = NoMuted
  /\ spoken = <<"Camera started. Scanning for items.">>
  /\ variants = [v \in OtherVariants |-> [visible |-> {}, announced |-> {}]]
  /\ tick = NoTick
  /\ stopped = FALSE
  /\ hist = NoHist
  /\ uttered = {}
  /\ toggled = "none"
  /\ ev = "off"
  /\ calls = 0
  /\ overtook = FALSE
  /\ speakTimeouts = <<>>
  /\ synth = "off"

NextVariants ==
  \/ inflight = 0 /\ TimerFired
  \/ \E allPredictions \in Frames : DetectCompleted(allPredictions)

SpecVariants == InitVariants /\ [][NextVariants]_vars

(***************************************************************************)
(* An uninterrupted capture session in which apple is detected at 0.7 on   *)
(* every tick while banana and orange come and go around it: capture has   *)
(* just started, one invocation runs at a time, and the interval keeps     *)
(* firing and model.detect keeps resolving (weak fairness of the step).    *)
(***************************************************************************)
SessionFrames ==
  {<<Det("apple", 70)>>,
   <<Det("banana", 90), Det("apple", 70)>>,
   <<Det("orange", 90), Det("apple", 70)>>,
   <<Det("apple", 70), Det("banana", 70)>>,
   <<Det("banana", 70), Det("apple", 70)>>,
   <<Det("person", 90), Det("apple", 70)>>,
   <<Det("banana", 60), Det("apple", 70), Det("orange", 65)>>,
   <<Det("banana", 90), Det("orange", 90), Det("apple", 70)>>}

InitSession ==
  /\ model = "loaded"
  /\ isCameraActive = TRUE
  /\ video = "playing"
  /\ timerRef = 1
  /\ timers = {1}
  /\ gumPending = 0
  /\ playPending = 0
  /\ startTimeouts = 0
  /\ gsQueue = <<>>
  /\ isGrayscale = FALSE
  /\ inflight = 1
  /\ visible = {}
  /\ announced = {}
  /\ detections = <<>>
  /\ lastSpokenItem = ""
  /\ speakResults = TRUE
  /\ isFullscreen = FALSE
  /\ showControls = TRUE
  /\ muted = NoMuted
  /\ spoken = <<"Camera started. Scanning for items.">>
  /\ variants = <<>>
  /\ tick = NoTick
  /\ stopped = FALSE
  /\ hist = NoHist
  /\ uttered = {}
  /\ toggled = "none"
  /\ ev = "off"
  /\ calls = 0
  /\ overtook = FALSE
  /\ speakTimeouts = <<>>
  /\ synth = "off"

NextSession ==
  \/ inflight = 0 /\ TimerFired
  \/ \E allPredictions \in SessionFrames : DetectCompleted(allPredictions)

SpecSession == InitSession /\ [][NextSession]_vars /\ WF_vars(NextSession)

(***************************************************************************)
(* Capture running, steps recorded: the interval fires (also while an      *)
(* invocation is waiting), model.detect resolves or rejects, and REPEAT is *)
(* pressed.                                                                *)
(***************************************************************************)
InitRunning ==
  /\ model = "loaded"
  /\ isCameraActive = TRUE
  /\ video = "playing"
  /\ timerRef = 1
  /\ timers = {1}
  /\ gumPending = 0
  /\ playPending = 0
  /\ startTimeouts = 0
  /\ gsQueue = <<>>
  /\ isGrayscale = FALSE
  /\ inflight = 1
  /\ visible = {}
  /\ announced = {}
  /\ detections = <<>>
  /\ lastSpokenItem = ""
  /\ speakResults = TRUE
  /\ isFullscreen = FALSE
  /\ showControls = TRUE
  /\ muted = NoMuted
  /\ spoken = <<"Camera started. Scanning for items.">>
  /\ variants = <<>>
  /\ tick = NoTick
  /\ stopped = FALSE
  /\ hist = NoHist
  /\ uttered = {}
  /\ toggled = "none"
  /\ ev = "startTimeout"
  /\ calls = 1
  /\ overtook = FALSE
  /\ speakTimeouts = <<>>
  /\ synth = "off"

NextRunning ==
  \/ TimerFired
  \/ DetectThrew
  \/ RepeatLatestDetection
  \/ \E allPredictions \in Frames : DetectCompleted(allPredictions)

SpecRunning == InitRunning /\ [][NextRunning]_vars

(***************************************************************************)
(* Capture running with speech synthesis followed: the start timeout has   *)
(* just called speak("Camera started. Scanning for items."), whose 100 ms  *)
(* timeout is pending; ticks announce, REPEAT is pressed, the timeouts of  *)
(* speak fire and utterances end.                                          *)
(***************************************************************************)
InitSpeech ==
  /\ model = "loaded"
  /\ isCameraActive = TRUE
  /\ video = "playing"
  /\ timerRef = 1
  /\ timers = {1}
  /\ gumPending = 0
  /\ playPending = 0
  /\ startTimeouts = 0
  /\ gsQueue = <<>>
  /\ isGrayscale = FALSE
  /\ inflight = 1
  /\ visible = {}
  /\ announced = {}
  /\ detections = <<>>
  /\ lastSpokenItem = ""
  /\ speakResults = TRUE
  /\ isFullscreen = FALSE
  /\ showControls = TRUE
  /\ muted = NoMuted
  /\ spoken = <<"Camera started. Scanning for items.">>
  /\ variants = <<>>
  /\ tick = NoTick
  /\ stopped = FALSE
  /\ hist = NoHist
  /\ uttered = {}
  /\ toggled = "none"
  /\ ev = "startTimeout"
  /\ calls = 1
  /\ overtook = FALSE
  /\ speakTimeouts = <<"Camera started. Scanning for items.">>
  /\ synth = <<>>

NextSpeech ==
  \/ inflight = 0 /\ TimerFired
  \/ RepeatLatestDetection
  \/ SpeakTimeoutFired
  \/ UtteranceEnded
  \/ \E allPredictions \in Frames : DetectCompleted(allPredictions)

SpecSpeech == InitSpeech /\ [][NextSpeech]_vars

(***************************************************************************)
(* Properties                                                              *)
(***************************************************************************)

\* The announced set when the announcement decision of the step is taken:
\* the labels of the previous VisibleSet that left it are removed.
KeptAtDecision == announced \ (visible \ visible')

\* The candidates of the step, as positions of the tracker's input.
CandidatesOfStep ==
  {i \in DOMAIN detections' :
     /\ detections'[i].score > AnnounceThreshold
     /\ detections'[i].class \notin KeptAtDecision}

\* C1: one detectObjects invocation emits at most one item announcement and
\* adds at most one label to AnnouncedSet, for every prior pair of sets and
\* every detection list.
C1_AtMostOnePerTick ==
  [][tick'.applied =>
       /\ Len(tick'.says) <= 1
       /\ Cardinality(announced' \ announced) <= 1]_vars

\* C1 witness: two new candidates in one tick, only banana was announced.
C1_Witness ==
  /\ tick.applied
  /\ tick.says = <<"banana">>
  /\ announced = {"banana"}
  /\ detections = <<Det("banana", 90), Det("apple", 70)>>

\* C2: within a capture session a label is not announced again while it has
\* been present in every applied tick since its announcement, also when its
\* confidence was in (0.55, 0.65] in between.
C2_OncePerPresence ==
  [][\A l \in Labels :
       (tick'.applied /\ l \in Range(tick'.says)) =>
         hist[l] \notin {"held", "reheld"}]_vars

\* C2 witness: apple is held and the tick just applied saw it at 0.6 only,
\* without announcing it.
C2_Witness ==
  /\ tick.applied
  /\ tick.says = <<>>
  /\ hist["apple"] = "held"
  /\ "apple" \in announced
  /\ detections = <<Det("apple", 60)>>

\* C3: a tick without a detection of an announced label above the tracking
\* threshold removes the label from AnnouncedSet in that tick, and a later
\* tick in which the label is the only detection above the announce
\* threshold announces it again and puts it back.
C3_RemovedThenReannounced ==
  [][tick'.applied =>
       \A l \in Labels :
         /\ (l \in announced /\ ~Present(l, detections')) => l \notin announced'
         /\ (/\ hist[l] = "gone"
             /\ \E i \in DOMAIN detections' :
                  /\ detections'[i].class = l
                  /\ detections'[i].score > AnnounceThreshold
             /\ \A i \in DOMAIN detections' :
                  detections'[i].score > AnnounceThreshold
                    => detections'[i].class = l)
            => (tick'.says = <<l>> /\ l \in announced')]_vars

\* C3 witness: apple was announced, went away, and the tick just applied
\* announced it again.
C3_Witness ==
  /\ tick.applied
  /\ tick.says = <<"apple">>
  /\ hist["apple"] = "reheld"
  /\ "apple" \in announced

\* C4: from the stop path of toggleCamera until the next start click both
\* sets stay empty and no item announcement is emitted.
C4_NothingSurvivesStop ==
  stopped => (visible = {} /\ announced = {} /\ tick.says = <<>>)

\* C5: at most one detectObjects invocation is between its start and the
\* completion of its inference call.
C5_TicksSerialized == inflight <= 1

\* C6: from the stop path of toggleCamera until the next start click no
\* repeating detection timer is active.
C6_NoTimerAfterStop == stopped => timers = {}

\* C7: when the start path has succeeded and its delayed
\* startDetectionInterval runs, both sets are empty.
C7_EmptyAtCaptureStart ==
  [][(startTimeouts' < startTimeouts /\ video # "none") =>
       (visible = {} /\ announced = {})]_vars

\* C8: AnnouncedSet is a subset of the latest VisibleSet, and every label a
\* tick announces is in the VisibleSet of that tick.
C8_AnnouncedWithinVisible ==
  /\ announced \subseteq visible
  /\ tick.applied => Range(tick.says) \subseteq visible

\* C8 witness: the tick just applied dropped apple (announced before) and
\* announced banana.
C8_Witness ==
  /\ tick.applied
  /\ tick.says = <<"banana">>
  /\ hist["apple"] = "gone"
  /\ announced = {"banana"}
  /\ visible = {"banana"}

\* C9: with several candidates the announced label is that of the candidate
\* with the highest confidence, and among equals the first in the
\* detector's output order.
C9_TopCandidateFirstOnTie ==
  [][(tick'.applied /\ CandidatesOfStep # {}) =>
       \E i \in CandidatesOfStep :
         /\ \A j \in CandidatesOfStep :
              \/ detections'[j].score < detections'[i].score
              \/ (detections'[j].score = detections'[i].score /\ i <= j)
         /\ tick'.says = <<detections'[i].class>>]_vars

\* C9 witness: two candidates of equal confidence, the first was announced.
C9_Witness ==
  /\ tick.applied
  /\ Len(detections) = 2
  /\ detections[1].score = detections[2].score
  /\ detections[1].score > AnnounceThreshold
  /\ detections[1].class # detections[2].class
  /\ tick.says = <<detections[1].class>>
  /\ announced = {detections[1].class}

\* The reference operation of the tracker on its input list.
RefNewVisible(list) ==
  {list[i].class : i \in {j \in DOMAIN list : list[j].score > TrackThreshold}}

RefKept(prevVisible, prevAnnounced, list) ==
  prevAnnounced \ (prevVisible \ RefNewVisible(list))

RefCandidates(prevVisible, prevAnnounced, list) ==
  {i \in DOMAIN list :
     /\ list[i].score > AnnounceThreshold
     /\ list[i].class \notin RefKept(prevVisible, prevAnnounced, list)}

RefTop(prevVisible, prevAnnounced, list) ==
  LET c == RefCandidates(prevVisible, prevAnnounced, list)
  IN CHOOSE i \in c :
       \A j \in c : list[j].score < list[i].score
                    \/ (list[j].score = list[i].score /\ i <= j)

RefSays(prevVisible, prevAnnounced, list) ==
  IF RefCandidates(prevVisible, prevAnnounced, list) = {} THEN <<>>
  ELSE <<list[RefTop(prevVisible, prevAnnounced, list)].class>>

\* C10: the VisibleSet, AnnouncedSet and announcement of an applied tick
\* equal those of the reference operation on the same prior sets and list.
C10_TickEqualsReference ==
  [][tick'.applied =>
       /\ visible' = RefNewVisible(detections')
       /\ tick'.says = RefSays(visible, announced, detections')
       /\ announced' = RefKept(visible, announced, detections')
                         \cup Range(RefSays(visible, announced, detections'))]_vars

\* C10 witness: one tick dropped apple from both sets, kept banana tracked
\* below the announce threshold and announced nothing.
C10_Witness ==
  /\ tick.applied
  /\ tick.says = <<>>
  /\ hist["apple"] = "gone"
  /\ visible = {"banana"}
  /\ announced = {}
  /\ detections = <<Det("apple", 55), Det("banana", 60)>>

\* The label has a detection in the list and each of its detections has a
\* confidence in (0.55, 0.65].
InBandOnly(l, list) ==
  /\ \E i \in DOMAIN list : list[i].class = l
  /\ \A i \in DOMAIN list :
       list[i].class = l =>
         (list[i].score > TrackThreshold /\ list[i].score <= AnnounceThreshold)

\* C11: a label whose detections of a tick all lie above the tracking
\* threshold and not above the announce threshold is in VisibleSet after the
\* tick, is not announced by it and is not added to AnnouncedSet by it.
C11_BandTrackedNotAnnounced ==
  [][tick'.applied =>
       \A l \in Labels :
         InBandOnly(l, detections') =>
           /\ l \in visible'
           /\ l \notin Range(tick'.says)
           /\ (l \in announced' => l \in announced)]_vars

\* C11 witness: apple was seen at 0.6 and at exactly 0.65 by the tick just
\* applied: it is visible, nothing was announced, AnnouncedSet is empty.
C11_Witness ==
  /\ tick.applied
  /\ detections = <<Det("apple", 60), Det("apple", 65)>>
  /\ visible = {"apple"}
  /\ announced = {}
  /\ tick.says = <<>>

\* C12: every label in AnnouncedSet was handed to speech synthesis when it
\* was added, whatever the voice setting was.
C12_AnnouncedWereSpoken == announced \subseteq uttered

\* C13: once the voice button was pressed during capture, an item
\* announcement of a tick that began after the press is spoken when voice
\* feedback is on and is not spoken when it is off.
C13_VoiceGovernsAnnouncements ==
  [][(toggled = "fresh" /\ tick'.applied /\ tick'.says # <<>>) =>
       (IF speakResults THEN spoken' = tick'.says ELSE spoken' = <<>>)]_vars

\* C14: what REPEAT speaks is the label of the latest item announcement.
C14_RepeatSpeaksLastAnnouncement ==
  [][(ev' = "repeatLatestDetection" /\ spoken' # <<>>) =>
       spoken' = <<lastSpokenItem>>]_vars

LabelsWhere(raw, Keep(_)) ==
  {raw[i].class : i \in {j \in DOMAIN raw : /\ raw[j].class # "person"
                                           /\ Keep(raw[j].score)}}

AtOrAboveTrack(score) == score >= TrackThreshold

AboveTrack(score) == score > TrackThreshold

\* C16 as stated: after a tick VisibleSet is the set of labels with a
\* non-person detection at or above 0.55.
C16_VisibleIsAtOrAboveThreshold ==
  tick.applied => visible = LabelsWhere(tick.raw, AtOrAboveTrack)

\* C16 amended: after a tick VisibleSet is the set of labels with a
\* non-person detection strictly above 0.55; a label whose detections are
\* all at 0.55 or below is in neither set afterwards.
C16_VisibleIsStrictlyAboveThreshold ==
  [][tick'.applied =>
       /\ visible' = LabelsWhere(tick'.raw, AboveTrack)
       /\ \A l \in LabelsWhere(tick'.raw, AtOrAboveTrack)
                     \ LabelsWhere(tick'.raw, AboveTrack) :
            /\ l \notin visible'
            /\ l \notin announced']_vars

\* C16 witness: apple had been announced and is now detected at exactly
\* 0.55; the tick left it in neither set.
C16_Witness ==
  /\ tick.applied
  /\ tick.raw = <<Det("apple", 55)>>
  /\ hist["apple"] = "gone"
  /\ tick.says = <<>>
  /\ visible = {}
  /\ announced = {}

\* C17: "person" is in neither VisibleSet nor AnnouncedSet, is not among
\* the labels a tick announced, is not the last spoken item and is not in
\* what the last handler (a tick or the Repeat button) passed to speech
\* synthesis; the list Repeat reads holds no "person" detection either.
C17_PersonNeverTracked ==
  /\ "person" \notin visible \cup announced
  /\ "person" \notin Range(tick.says)
  /\ "person" \notin Range(spoken)
  /\ lastSpokenItem # "person"
  /\ \A i \in DOMAIN detections : detections[i].class # "person"

\* C17 witness: the detector reported person at 0.9 ahead of apple at 0.7
\* and the tick tracked and announced apple alone.
C17_Witness ==
  /\ tick.applied
  /\ tick.raw = <<Det("person", 90), Det("apple", 70)>>
  /\ tick.says = <<"apple">>
  /\ spoken = <<"apple">>
  /\ visible = {"apple"}
  /\ detections = <<Det("apple", 70)>>

\* C18: a tick whose detection list is empty (the detector returned
\* nothing, or nothing but the excluded class) is applied with no
\* announcement, nothing spoken and both sets empty, whatever the sets held
\* before; a tick applied right after it runs as a tick from two empty sets.
C18_EmptyTick ==
  [][/\ (tick'.applied /\ FilterPerson(tick'.raw) = <<>>) =>
          /\ tick'.says = <<>>
          /\ spoken' = <<>>
          /\ visible' = {}
          /\ announced' = {}
          /\ detections' = <<>>
          /\ lastSpokenItem' = lastSpokenItem
     /\ (tick.applied /\ FilterPerson(tick.raw) = <<>> /\ tick'.applied) =>
          \A r \in {TrackerStep({}, {}, tick'.raw)} :
            /\ visible' = r.visible
            /\ announced' = r.announced
            /\ tick'.says = r.says]_vars

\* C18 witness: apple was visible and announced, the detector then returned
\* an empty list, and the tick emptied both sets without speaking while the
\* next invocation is already waiting for the detector.
C18_Witness ==
  /\ tick.applied
  /\ tick.raw = <<>>
  /\ hist["apple"] = "gone"
  /\ tick.says = <<>>
  /\ spoken = <<>>
  /\ visible = {}
  /\ announced = {}
  /\ lastSpokenItem = "apple"
  /\ inflight > 0

\* C19: a step that starts the detection interval (it sets a new timer)
\* calls detectObjects once, and every firing of a live interval timer
\* calls detectObjects once.
C19_OneTickPerStartAndPerFiring ==
  [][/\ (timers' \ timers # {}) => calls' = 1
     /\ ev' = "interval" => calls' = 1]_vars

\* C20: with voice on and one invocation at a time, every applied tick
\* leaves part_000 and both components of page.tsx with the VisibleSet and
\* the AnnouncedSet of page.js and makes each of them announce what page.js
\* announces.
C20_VariantsAgree ==
  [][tick'.applied =>
       \A v \in OtherVariants :
         /\ variants'[v] = [visible |-> visible', announced |-> announced']
         /\ \A r \in {VariantStep(VariantConfig(v), variants[v].visible,
                                  variants[v].announced, tick'.raw)} :
              r.says = tick'.says]_vars

\* C20 witness: after apple, a frame with banana at 0.9 ahead of apple made
\* all four variants announce banana and hold both labels in both sets.
C20_Witness ==
  /\ tick.applied
  /\ tick.raw = <<Det("banana", 90), Det("apple", 70)>>
  /\ tick.says = <<"banana">>
  /\ announced = {"apple", "banana"}
  /\ \A v \in OtherVariants :
       variants[v] = [visible |-> {"apple", "banana"},
                      announced |-> {"apple", "banana"}]

\* C21 as stated: in a session in which apple is detected above the
\* announce threshold on every tick, apple is eventually announced.
C21_EventuallyAnnounced == <>("apple" \in announced)

\* The detections of the last tick that were announce candidates ahead of
\* apple: a label other than apple that was not in AnnouncedSet at the
\* decision, above the announce threshold, with a higher score than some
\* apple detection or the same score earlier in the list.
RivalsAhead ==
  LET preds == FilterPerson(tick.raw)
      kept == announced \ Range(tick.says)
  IN {i \in DOMAIN preds :
        /\ preds[i].class # "apple"
        /\ preds[i].class \notin kept
        /\ preds[i].score > AnnounceThreshold
        /\ \E j \in DOMAIN preds :
             /\ preds[j].class = "apple"
             /\ \/ preds[i].score > preds[j].score
                \/ preds[i].score = preds[j].score /\ i < j}

\* C21 amended: after a tick on which no label outside AnnouncedSet was
\* ahead of apple, apple is in AnnouncedSet.
C21_AnnouncedWhenNotOutranked ==
  (tick.applied /\ RivalsAhead = {}) => "apple" \in announced

\* C21 witness: banana was announced ahead of apple on an earlier tick and is
\* still there at 0.9; this tick announced apple.
C21_Witness ==
  /\ tick.applied
  /\ tick.raw = <<Det("banana", 90), Det("apple", 70)>>
  /\ RivalsAhead = {}
  /\ tick.says = <<"apple">>
  /\ announced = {"apple", "banana"}

\* C22: a tick is applied only when no invocation that called model.detect
\* before it is still waiting, so detector outputs reach the sets in the
\* order in which their ticks were started.
C22_AppliedInStartOrder == tick.applied => ~overtook

C24_ActiveIffStreamAttached ==
  (gumPending = 0 /\ playPending = 0) => (isCameraActive <=> video # "none")

\* C25: a tick whose model.detect rejected leaves VisibleSet, AnnouncedSet,
\* the shown detections and the last spoken item as they were, speaks
\* nothing and leaves the camera state and the interval timer alone; a
\* tick applied right after it is the tracker step from the unchanged sets.
C25_ThrowLeavesTracker ==
  [][/\ (ev' = "detectObjects" /\ ~tick'.applied) =>
          /\ visible' = visible
          /\ announced' = announced
          /\ detections' = detections
          /\ lastSpokenItem' = lastSpokenItem
          /\ spoken' = <<>>
          /\ isCameraActive' = isCameraActive
          /\ timerRef' = timerRef
          /\ timers' = timers
     /\ (ev = "detectObjects" /\ ~tick.applied /\ tick'.applied) =>
          \A r \in {TrackerStep(visible, announced, tick'.raw)} :
            /\ visible' = r.visible
            /\ announced' = r.announced
            /\ tick'.says = r.says]_vars

\* C25 witness: model.detect rejected while apple is visible and announced;
\* both sets still hold apple, the timer is live and the next invocation is
\* waiting.
C25_Witness ==
  /\ ev = "detectObjects"
  /\ ~tick.applied
  /\ visible = {"apple"}
  /\ announced = {"apple"}
  /\ timers = {timerRef}
  /\ inflight > 0

TopShown(dets) ==
  LET shown == SelectSeq(dets, LAMBDA d : d.class # "person")
      i == CHOOSE i \in DOMAIN shown :
             \A j \in DOMAIN shown :
               \/ shown[j].score < shown[i].score
               \/ shown[j].score = shown[i].score /\ i <= j
  IN shown[i].class

\* C27: a press of REPEAT leaves VisibleSet, AnnouncedSet, the shown
\* detections and the last spoken item as they were; it speaks the top
\* non-person detection, or "No objects currently detected" when there is
\* none.
C27_RepeatLeavesTracker ==
  [][ev' = "repeatLatestDetection" =>
       /\ visible' = visible
       /\ announced' = announced
       /\ detections' = detections
       /\ lastSpokenItem' = lastSpokenItem
       /\ spoken' = IF \A i \in DOMAIN detections : detections[i].class = "person"
                    THEN <<"No objects currently detected">>
                    ELSE <<TopShown(detections)>>]_vars

\* C27 witness: apple is shown at 0.6, tracked and never announced; REPEAT
\* spoke "apple" and AnnouncedSet is still empty.
C27_Witness ==
  /\ ev = "repeatLatestDetection"
  /\ detections = <<Det("apple", 60)>>
  /\ spoken = <<"apple">>
  /\ visible = {"apple"}
  /\ announced = {}
  /\ lastSpokenItem = ""

\* C28: a press of VOICE speaks the confirmation of the new setting:
\* "Voice feedback disabled" when it turns voice off, "Voice feedback
\* enabled" when it turns voice on.
C28_ToggleSpeechConfirms ==
  [][ev' = "toggleSpeech" =>
       spoken' = <<IF speakResults' THEN "Voice feedback enabled"
                   ELSE "Voice feedback disabled">>]_vars

\* C29: speech synthesis holds at most one utterance, and an utterance
\* that starts is the one of the latest speak call (no later request is
\* pending behind it and none was made after it).
C29_OnlyLatestSpeech ==
  [][synth' # "off" =>
       /\ Len(synth') <= 1
       /\ Len(synth') > Len(synth) => Len(speakTimeouts) = 1]_vars

====
